---- MODULE Spec2Model ----
(***************************************************************************)
(* pgcopydb, src/bin/pgcopydb/dump_restore.c: the checkpointed schema     *)
(* dump / restore orchestration and the pg_restore use-list filtering.    *)
(*                                                                         *)
(* The state is the working directory (the two archive files, the four    *)
(* phase tracking files, the per-object done files of the index           *)
(* directory, the pg_restore list file), the target database (how many    *)
(* times each section was restored) and what the last invocation did.     *)
(* Each handler of the source file is one action; the outcome of every    *)
(* external operation it calls is an input of the action.                 *)
(*                                                                         *)
(* Spec         the pipeline, run again after every error or kill, on a   *)
(*              working directory that starts empty                       *)
(* SpecLive     Spec, with a caller that keeps running the pipeline and   *)
(*              external operations that succeed in the end               *)
(* SpecDump     the dump invoked again and again, any section argument    *)
(* SpecAnyDir   one invocation of any handler on any working directory    *)
(* SpecManifest the post-data stage on any table of contents and any set  *)
(*              of per-object done files                                   *)
(***************************************************************************)
EXTENDS Integers, Sequences, FiniteSets, TLC

\* ------------------------------------------------------------ bounds
MaxTocLen == 2        \* longest archive table of contents
MaxRestores == 2      \* successful pg_restore runs are counted up to this

\* ------------------------------------------------------------ domains
Sections == {"pre-data", "post-data"}

\* PostgresDumpSection values accepted by copydb_dump_source_schema
PG_DUMP_SECTION == {"SCHEMA", "PRE_DATA", "POST_DATA", "ALL"}

\* specs->cfPaths.done.*
DoneFiles == {"preDataDump", "postDataDump", "preDataRestore", "postDataRestore"}

Oids == {100, 101}
CatalogOids == {2608, 2610}
DumpIds == {1, 2}

ArchiveEntry == [dumpId : DumpIds, catalogOid : CatalogOids, objectOid : Oids]

SeqsUpTo(S, n) == UNION {[1 .. k -> S] : k \in 0 .. n}

\* every table of contents an archive may hold
ArchiveContentArray == SeqsUpTo(ArchiveEntry, MaxTocLen)

\* ------------------------------------------------------------ text
\* A text is a sequence of one-character strings.
Digit(d) == CASE d = 0 -> "0" [] d = 1 -> "1" [] d = 2 -> "2" [] d = 3 -> "3"
              [] d = 4 -> "4" [] d = 5 -> "5" [] d = 6 -> "6" [] d = 7 -> "7"
              [] d = 8 -> "8" [] d = 9 -> "9"

RECURSIVE FormatUnsigned(_)
\* printf %u (and %d of a value >= 0): decimal digits, most significant first
FormatUnsigned(n) ==
    IF n < 10 THEN <<Digit(n)>>
    ELSE FormatUnsigned(n \div 10) \o <<Digit(n % 10)>>

\* printf %d
FormatSigned(n) == IF n < 0 THEN <<"-">> \o FormatUnsigned(-n) ELSE FormatUnsigned(n)

\* ------------------------------------------------------------ files
NoArchive == [kind |-> "absent", toc |-> <<>>]
PartialArchive == [kind |-> "partial", toc |-> <<>>]
Archive(toc) == [kind |-> "archive", toc |-> toc]

NoFile == [exists |-> FALSE, data |-> <<>>]
File(data) == [exists |-> TRUE, data |-> data]

\* content of a per-object done file of the index directory
DoneFileContents == {"absent", "empty", "text"}

\* ------------------------------------------------------------ outcomes
\* What an external operation can do when it is called: succeed, fail
\* (returning false), or be cut short because the controlling process is
\* terminated while it runs (kill).
\* "Partial": a pg_dump that leaves an unreadable archive behind; a write_file
\* cut short after it created the file.
Failures == {"fail", "failPartial", "kill", "killPartial"}
Outcomes == {"ok"} \cup Failures
ReadOutcomes == {"ok", "fail"}
\* lines[lineCount - 1] with lineCount = 0 reads before the array: the value
\* is only logged, or the process dies formatting it
OutOfRangeOutcomes == {"logged", "segv"}

\* ------------------------------------------------------------ a run
\* The record a handler works on: the working directory and target database
\* it sees, the external invocations it has made so far (calls), the result of
\* the last external operation (ok, contents) and its own return (ret).
Running(r) == r.ret = "running"
Return(r, v) == [r EXCEPT !.ret = v]
\* how an outcome shows: the operation returned true, returned false, or never
\* returned, the process being killed before it had any effect or later
Result(out) == CASE out = "ok" -> "ok"
                 [] out \in {"fail", "failPartial"} -> "failed"
                 [] out = "kill" -> "killed"
                 [] out = "killPartial" -> "killedLate"
Called(r, what, arg, result) ==
    [r EXCEPT !.calls = Append(@, <<what, arg, result>>)]
\* control reaches the test of a phase's tracking file
Entered(r, name) == [r EXCEPT !.entered = Append(@, name)]

DoneFileOf(section, stage) ==
    CASE section = "pre-data" /\ stage = "dump" -> "preDataDump"
      [] section = "post-data" /\ stage = "dump" -> "postDataDump"
      [] section = "pre-data" /\ stage = "restore" -> "preDataRestore"
      [] section = "post-data" /\ stage = "restore" -> "postDataRestore"

\* file_exists(specs->cfPaths.done.<name>)
done_file_exists(r, name) == r.done[name]

\* file_exists(specs->dumpPaths.preFilename / postFilename)
dump_file_exists(r, section) == r.dump[section].kind # "absent"

\* write_file("", 0, specs->cfPaths.done.<name>)
write_done_file(r, name, out) ==
    LET c == Called(r, "write_file", name, Result(out)) IN
    CASE out = "ok" -> [c EXCEPT !.done[name] = TRUE, !.ok = TRUE]
      [] out \in {"fail", "failPartial"} -> [c EXCEPT !.ok = FALSE]
      [] out = "kill" -> [c EXCEPT !.ret = "crash"]
      [] out = "killPartial" -> [c EXCEPT !.done[name] = TRUE, !.ret = "crash"]

\* write_file(listContents->data, listContents->len, specs->dumpPaths.listFilename)
write_list_file(r, data, out) ==
    LET c == Called(r, "write_file", "listFilename", Result(out)) IN
    CASE out = "ok" -> [c EXCEPT !.list = File(data), !.ok = TRUE]
      [] out \in {"fail", "failPartial"} -> [c EXCEPT !.ok = FALSE]
      [] out = "kill" -> [c EXCEPT !.ret = "crash"]
      [] out = "killPartial" -> [c EXCEPT !.list = File(<<>>), !.ret = "crash"]

\* pg_dump -Fc --section=<section> --file <archive>
pg_dump_db(r, section, toc, out) ==
    LET c == Called(r, "pg_dump_db", section, Result(out)) IN
    CASE out = "ok" -> [c EXCEPT !.dump[section] = Archive(toc), !.ok = TRUE]
      [] out = "fail" -> [c EXCEPT !.ok = FALSE]
      [] out = "failPartial" -> [c EXCEPT !.dump[section] = PartialArchive, !.ok = FALSE]
      [] out = "kill" -> [c EXCEPT !.ret = "crash"]
      [] out = "killPartial" -> [c EXCEPT !.dump[section] = PartialArchive, !.ret = "crash"]

\* pg_restore --list <archive>: the table of contents of a readable archive
\* pg_restore reads the archive: it cannot succeed on an unreadable one
OnArchive(r, section, out) ==
    IF out = "ok" /\ r.dump[section].kind # "archive" THEN "fail" ELSE out

pg_restore_list(r, section, out) ==
    LET does == OnArchive(r, section, out)
        c == Called(r, "pg_restore_list", section, Result(does)) IN
    CASE does \in {"kill", "killPartial"} -> [c EXCEPT !.ret = "crash"]
      [] does = "ok" -> [c EXCEPT !.contents = r.dump[section].toc, !.ok = TRUE]
      [] OTHER -> [c EXCEPT !.ok = FALSE]

\* pg_restore [--use-list <list>] <archive>
pg_restore_db(r, section, out) ==
    LET does == OnArchive(r, section, out)
        c == Called(r, "pg_restore_db", section, Result(does)) IN
    CASE does \in {"kill", "killPartial"} -> [c EXCEPT !.ret = "crash"]
      [] does = "ok" ->
            [c EXCEPT !.restored[section] = IF @ < MaxRestores THEN @ + 1 ELSE @,
                      !.ok = TRUE]
      [] OTHER -> [c EXCEPT !.ok = FALSE]

\* ------------------------------------------------------------ handlers
\* The external operations of one invocation: they succeed, but for the
\* o.fault-th one, which ends as o.how (o.fault = 0: all succeed). Every
\* handler returns at the first operation that does not succeed, so this
\* covers every combination of outcomes it can observe.
Outcome(r, o) == IF Len(r.calls) + 1 = o.fault THEN o.how ELSE "ok"

\* the result of an external operation, as the caller tests it: a false
\* return makes the handler return false
OrReturnFalse(r) == IF Running(r) /\ ~r.ok THEN Return(r, "error") ELSE r

\* (mutant) the object counts as processed only when its done file has text
\* that can be read
copydb_objectid_processed_if_readable(r, oid, read, outOfRange) ==
    IF r.idx[oid] = "text" /\ read = "ok" THEN "true" ELSE "false"

\* copydb_objectid_has_been_processed_already: "true", "false", or "segv"
\* when the out-of-range read of lines[-1] kills the process
copydb_objectid_has_been_processed_already(r, oid, read, outOfRange) ==
    IF r.idx[oid] # "absent"
    THEN LET \* read_file leaves sql NULL when it fails; splitLines counts
             \* the lines of what was read
             lineCount == IF read = "ok" /\ r.idx[oid] = "text" THEN 1 ELSE 0
         IN IF lineCount = 0 /\ outOfRange = "segv" THEN "segv" ELSE "true"
    ELSE "false"

\* (mutant) the tracking file is written first, the section dumped after it
DumpPreData_trackfirst(r0, o) ==
    LET r == Entered(r0, "preDataDump")
        skip == done_file_exists(r, "preDataDump")
        tracked == OrReturnFalse(write_done_file(r, "preDataDump", Outcome(r, o)))
    IN IF Running(tracked) /\ ~skip
       THEN OrReturnFalse(pg_dump_db(tracked, "pre-data", <<>>, Outcome(tracked, o)))
       ELSE tracked

\* the pre-data block of copydb_dump_source_schema
DumpPreData(r0, o) ==
    LET r == Entered(r0, "preDataDump")
        dumped ==
            IF done_file_exists(r, "preDataDump")
            THEN r      \* log_info("Skipping pg_dump --section=pre-data")
            ELSE OrReturnFalse(pg_dump_db(r, "pre-data", <<>>, Outcome(r, o)))
    IN  \* now write the doneFile to keep track
        IF Running(dumped)
        THEN OrReturnFalse(write_done_file(dumped, "preDataDump", Outcome(dumped, o)))
        ELSE dumped

\* (mutant) the section is skipped when its archive file is there
DumpPostData_ifnoarchive(r0, o) ==
    LET r == Entered(r0, "postDataDump")
        dumped ==
            IF done_file_exists(r, "postDataDump") \/ dump_file_exists(r, "post-data")
            THEN r
            ELSE OrReturnFalse(pg_dump_db(r, "post-data", o.toc, Outcome(r, o)))
    IN IF Running(dumped)
       THEN OrReturnFalse(write_done_file(dumped, "postDataDump", Outcome(dumped, o)))
       ELSE dumped

\* (mutant) the tracking file is removed before the section is dumped again
DumpPostData_unlinking(r0, o) ==
    LET r == [Entered(r0, "postDataDump") EXCEPT !.done["postDataDump"] = FALSE]
        dumped == OrReturnFalse(pg_dump_db(r, "post-data", o.toc, Outcome(r, o)))
    IN IF Running(dumped)
       THEN OrReturnFalse(write_done_file(dumped, "postDataDump", Outcome(dumped, o)))
       ELSE dumped

\* (mutant) the tracking file is written before pg_dump's result is looked at
DumpPostData_unchecked(r0, o) ==
    LET r == Entered(r0, "postDataDump")
        dumped ==
            IF done_file_exists(r, "postDataDump") THEN r
            ELSE pg_dump_db(r, "post-data", o.toc, Outcome(r, o))
        tracked ==
            IF Running(dumped)
            THEN [write_done_file(dumped, "postDataDump", Outcome(dumped, o))
                    EXCEPT !.ok = @ /\ dumped.ok]
            ELSE dumped
    IN OrReturnFalse(tracked)

\* the post-data block of copydb_dump_source_schema
DumpPostData(r0, o) ==
    LET r == Entered(r0, "postDataDump")
        dumped ==
            IF done_file_exists(r, "postDataDump")
            THEN r      \* log_info("Skipping pg_dump --section=post-data")
            ELSE OrReturnFalse(pg_dump_db(r, "post-data", o.toc, Outcome(r, o)))
    IN  \* now write the doneFile to keep track
        IF Running(dumped)
        THEN OrReturnFalse(write_done_file(dumped, "postDataDump", Outcome(dumped, o)))
        ELSE dumped

\* (mutant) the pre-data block runs whatever the section argument
copydb_dump_source_schema_prealways(r, section, o) ==
    LET pre == DumpPreData(r, o)
        post == IF Running(pre) /\ section \in {"SCHEMA", "POST_DATA", "ALL"}
                THEN DumpPostData(pre, o) ELSE pre
    IN IF Running(post) THEN Return(post, "ok") ELSE post

\* (mutant) the post-data block comes first
copydb_dump_source_schema_postfirst(r, section, o) ==
    LET post == IF section \in {"SCHEMA", "POST_DATA", "ALL"}
                THEN DumpPostData(r, o) ELSE r
        pre == IF Running(post) /\ section \in {"SCHEMA", "PRE_DATA", "ALL"}
               THEN DumpPreData(post, o) ELSE post
    IN IF Running(pre) THEN Return(pre, "ok") ELSE pre

copydb_dump_source_schema(r, section, o) ==
    LET pre == IF section \in {"SCHEMA", "PRE_DATA", "ALL"}
               THEN DumpPreData(r, o) ELSE r
        post == IF Running(pre) /\ section \in {"SCHEMA", "POST_DATA", "ALL"}
                THEN DumpPostData(pre, o) ELSE pre
    IN IF Running(post) THEN Return(post, "ok") ELSE post

\* (mutant) the tracking file is written first, the restore done after it
RestorePreData_trackfirst(r0, o) ==
    LET r == Entered(r0, "preDataRestore")
        tracked == OrReturnFalse(
                     write_done_file(r, "preDataRestore", Outcome(r, o)))
        restored == IF Running(tracked)
                    THEN OrReturnFalse(
                           pg_restore_db(tracked, "pre-data", Outcome(tracked, o)))
                    ELSE tracked
    IN IF Running(restored) THEN Return(restored, "ok") ELSE restored

\* the tail of copydb_target_prepare_schema: restore, write the tracking file
RestorePreData(r0, o) ==
    LET r == Entered(r0, "preDataRestore")
        restored == OrReturnFalse(pg_restore_db(r, "pre-data", Outcome(r, o)))
        tracked == IF Running(restored)
                   THEN OrReturnFalse(
                          write_done_file(restored, "preDataRestore",
                                          Outcome(restored, o)))
                   ELSE restored
    IN IF Running(tracked) THEN Return(tracked, "ok") ELSE tracked

\* (mutant) the stage restores without looking for its tracking file
copydb_target_prepare_schema_noskip(r0, o) ==
    IF ~dump_file_exists(r0, "pre-data")
    THEN Return(r0, "error")
    ELSE RestorePreData(r0, o)

copydb_target_prepare_schema(r0, o) ==
    IF ~dump_file_exists(r0, "pre-data")
    THEN Return(r0, "error")    \* log_fatal("File does not exists")
    ELSE IF done_file_exists(r0, "preDataRestore")
    THEN Return(Entered(r0, "preDataRestore"), "ok")     \* log_info("Skipping")
    ELSE RestorePreData(r0, o)

\* PQExpBuffer: the text accumulated so far; once an allocation fails the
\* buffer is broken, holds nothing, and every later append is a no-op
EmptyPQExpBuffer == [data |-> <<>>, broken |-> FALSE]

appendPQExpBuffer(buf, text, allocFails) ==
    IF buf.broken THEN buf
    ELSE IF allocFails THEN [data |-> <<>>, broken |-> TRUE]
    ELSE [buf EXCEPT !.data = @ \o text]

\* (mutant) "%s%d;%u %u\n"
FormatListLine_nospace(prefix, item) ==
    prefix \o FormatSigned(item.dumpId) \o <<";">>
           \o FormatUnsigned(item.catalogOid) \o <<" ">>
           \o FormatUnsigned(item.objectOid) \o <<"\n">>

\* "%s%d; %u %u\n"
FormatListLine(prefix, item) ==
    prefix \o FormatSigned(item.dumpId) \o <<";", " ">>
           \o FormatUnsigned(item.catalogOid) \o <<" ">>
           \o FormatUnsigned(item.objectOid) \o <<"\n">>

RECURSIVE EditList_dropping(_, _, _, _, _)
\* (mutant) an entry already processed gets no line at all
EditList_dropping(r, contents, i, listContents, o) ==
    IF i > Len(contents) THEN [segv |-> FALSE, buf |-> listContents]
    ELSE
      LET processed == copydb_objectid_has_been_processed_already(
                           r, contents[i].objectOid, o.read, o.outOfRange)
      IN IF processed = "segv" THEN [segv |-> TRUE, buf |-> listContents]
         ELSE EditList_dropping(r, contents, i + 1,
                IF processed = "true" THEN listContents
                ELSE appendPQExpBuffer(listContents,
                                       FormatListLine(<<>>, contents[i]),
                                       o.oom = i),
                o)

RECURSIVE EditList(_, _, _, _, _)
\* for each object in the list, comment when we already processed it
EditList(r, contents, i, listContents, o) ==
    IF i > Len(contents) THEN [segv |-> FALSE, buf |-> listContents]
    ELSE
      LET oid == contents[i].objectOid
          processed == copydb_objectid_has_been_processed_already(
                           r, oid, o.read, o.outOfRange)
          prefix == IF processed = "true" THEN <<";">> ELSE <<>>
      IN IF processed = "segv" THEN [segv |-> TRUE, buf |-> listContents]
         ELSE EditList(r, contents, i + 1,
                       appendPQExpBuffer(listContents,
                                         FormatListLine(prefix, contents[i]),
                                         o.oom = i),
                       o)

\* (mutant) the tracking file is written whatever pg_restore returned
RestoreWithList_unchecked(r, data, o) ==
    LET written == OrReturnFalse(write_list_file(r, data, Outcome(r, o)))
        restored == IF Running(written)
                    THEN [pg_restore_db(written, "post-data", Outcome(written, o))
                            EXCEPT !.ok = TRUE]
                    ELSE written
        tracked == IF Running(restored)
                   THEN OrReturnFalse(
                          write_done_file(restored, "postDataRestore",
                                          Outcome(restored, o)))
                   ELSE restored
    IN IF Running(tracked) THEN Return(tracked, "ok") ELSE tracked

\* the tail of copydb_target_finalize_schema: write the list file, restore
\* with it, write the tracking file
RestoreWithList(r, data, o) ==
    LET written == OrReturnFalse(write_list_file(r, data, Outcome(r, o)))
        restored == IF Running(written)
                    THEN OrReturnFalse(pg_restore_db(written, "post-data", Outcome(written, o)))
                    ELSE written
        tracked == IF Running(restored)
                   THEN OrReturnFalse(
                          write_done_file(restored, "postDataRestore", Outcome(restored, o)))
                   ELSE restored
    IN IF Running(tracked) THEN Return(tracked, "ok") ELSE tracked

\* log_error(ALLOCATION_FAILED_ERROR), log_error("... out of memory")
NoMemory(r, where) == [r EXCEPT !.nomem = where]

\* (mutant) the buffer is written without a look at PQExpBufferBroken
FilterAndRestore_unchecked(r0, o) ==
    LET r == Entered(r0, "postDataRestore")
        listed == OrReturnFalse(pg_restore_list(r, "post-data", Outcome(r, o)))
    IN IF ~Running(listed) THEN listed
       ELSE IF o.oom = 0
       THEN Return(NoMemory(listed, "create"), "error")
       ELSE
         LET edited == EditList(listed, listed.contents, 1, EmptyPQExpBuffer, o)
             seen == IF edited.buf.broken THEN NoMemory(listed, "append") ELSE listed
         IN IF edited.segv THEN Return(listed, "crash")
            ELSE RestoreWithList(seen, edited.buf.data, o)

\* the body of copydb_target_finalize_schema after its two tests: list the
\* archive, edit the list, restore with it
FilterAndRestore(r0, o) ==
    LET r == Entered(r0, "postDataRestore")
        listed == OrReturnFalse(pg_restore_list(r, "post-data", Outcome(r, o)))
    IN IF ~Running(listed) THEN listed
       ELSE IF o.oom = 0        \* createPQExpBuffer() returned NULL
       THEN Return(NoMemory(listed, "create"), "error")
       ELSE
         LET edited == EditList(listed, listed.contents, 1, EmptyPQExpBuffer, o)
         IN IF edited.segv THEN Return(listed, "crash")
            ELSE IF edited.buf.broken       \* PQExpBufferBroken(listContents)
            THEN Return(NoMemory(listed, "append"), "error")
            ELSE RestoreWithList(listed, edited.buf.data, o)

\* (mutant) the tracking file is looked for before the archive file
copydb_target_finalize_schema_skipfirst(r0, o) ==
    IF done_file_exists(r0, "postDataRestore")
    THEN Return(Entered(r0, "postDataRestore"), "ok")
    ELSE IF ~dump_file_exists(r0, "post-data")
    THEN Return(r0, "error")
    ELSE FilterAndRestore(r0, o)

\* (mutant) the stage restores without looking for its tracking file
copydb_target_finalize_schema_noskip(r0, o) ==
    IF ~dump_file_exists(r0, "post-data")
    THEN Return(r0, "error")
    ELSE FilterAndRestore(r0, o)

copydb_target_finalize_schema(r0, o) ==
    IF ~dump_file_exists(r0, "post-data")
    THEN Return(r0, "error")    \* log_fatal("File does not exists")
    ELSE IF done_file_exists(r0, "postDataRestore")
    THEN Return(Entered(r0, "postDataRestore"), "ok")   \* log_info("Skipping")
    ELSE FilterAndRestore(r0, o)

\* ------------------------------------------------------------ state
VARIABLES
    dumpFile,   \* dumpPaths.preFilename, postFilename: the two archives
    done,       \* cfPaths.done.*: which phase tracking files exist
    idxdir,     \* cfPaths.idxdir: content of <oid>.done, per object
    listFile,   \* dumpPaths.listFilename: the pg_restore use-list
    restored,   \* target database: successful pg_restore runs per section
    op,         \* the last invocation: handler and section argument
    ret,        \* what it returned: "ok", "error", or "crash" when killed
    calls,      \* the external invocations it made, in order
    entered,    \* the phases it reached, in order
    interrupted, \* phases cut short by a kill and not reached again since
    resumed,    \* the phases it reached again after they were cut short
    nomem,      \* the allocation that failed in it: "none", "create", "append"
    unrecorded, \* dump phases whose pg_dump succeeded and whose tracking file
                \* could not be written, not reached again since
    redone,     \* the phases it reached again after they were left unrecorded
    built,      \* target database: the objects the concurrent builder created
    lost        \* sections with a restore stage invocation that was killed or
                \* could not write its tracking file

vars == <<dumpFile, done, idxdir, listFile, restored, op, ret, calls, entered,
          interrupted, resumed, nomem, unrecorded, redone, built, lost>>

\* the run a handler starts with
Enter ==
    [dump |-> dumpFile, done |-> done, idx |-> idxdir, list |-> listFile,
     restored |-> restored, calls |-> <<>>, entered |-> <<>>, ok |-> TRUE,
     contents |-> <<>>, nomem |-> "none", ret |-> "running"]

InSeq(x, seq) == \E i \in 1 .. Len(seq) : seq[i] = x

\* the invocation made this external call (with that result)
Invoked(cs, what, arg) ==
    \E i \in 1 .. Len(cs) : cs[i][1] = what /\ cs[i][2] = arg
InvokedWith(cs, what, arg, result) == InSeq(<<what, arg, result>>, cs)

\* the external operation a phase exists for
MainOp(name) ==
    CASE name = "preDataDump" -> <<"pg_dump_db", "pre-data">>
      [] name = "postDataDump" -> <<"pg_dump_db", "post-data">>
      [] name = "preDataRestore" -> <<"pg_restore_db", "pre-data">>
      [] name = "postDataRestore" -> <<"pg_restore_db", "post-data">>

\* the phase a kill cut short: the last one reached, not tracked as done when
\* the invocation started, when the process died before the write of its
\* tracking file began or before its operation completed
CutShort(r) ==
    IF r.ret = "crash" /\ r.entered # <<>>
    THEN LET name == r.entered[Len(r.entered)]
             main == MainOp(name)
         IN IF /\ ~done[name]
               /\ \/ /\ ~InvokedWith(r.calls, "write_file", name, "ok")
                     /\ ~InvokedWith(r.calls, "write_file", name, "killedLate")
                  \/ /\ Invoked(r.calls, main[1], main[2])
                     /\ ~InvokedWith(r.calls, main[1], main[2], "ok")
            THEN {name} ELSE {}
    ELSE {}

\* the dump phases of an invocation whose pg_dump returned true and whose
\* write_file of the tracking file returned false
Unrecorded(r) ==
    {name \in {"preDataDump", "postDataDump"} :
        /\ InvokedWith(r.calls, MainOp(name)[1], MainOp(name)[2], "ok")
        /\ InvokedWith(r.calls, "write_file", name, "failed")}

\* the section of a restore stage invocation that crashed, or whose
\* write_file of the tracking file returned false
Lost(r, name, section) ==
    IF /\ name \in {"prepare", "finalize"}
       /\ \/ r.ret = "crash"
          \/ InvokedWith(r.calls, "write_file", DoneFileOf(section, "restore"), "failed")
    THEN {section} ELSE {}

\* the state a handler leaves
Leave(r, name, section) ==
    /\ dumpFile' = r.dump
    /\ done' = r.done
    /\ idxdir' = r.idx
    /\ listFile' = r.list
    /\ restored' = r.restored
    /\ op' = [name |-> name, section |-> section]
    /\ ret' = r.ret
    /\ calls' = r.calls
    /\ entered' = r.entered
    /\ interrupted' =
         (interrupted \ {e \in DoneFiles : InSeq(e, r.entered)}) \cup CutShort(r)
    /\ resumed' = {e \in interrupted : InSeq(e, r.entered)}
    /\ nomem' = r.nomem
    /\ unrecorded' =
         (unrecorded \ {e \in DoneFiles : InSeq(e, r.entered)}) \cup Unrecorded(r)
    /\ redone' = {e \in unrecorded : InSeq(e, r.entered)}
    /\ built' = built
    /\ lost' = lost \cup Lost(r, name, section)

\* the source schema and the post-data table of contents pg_dump writes for it
SourceSchema ==
    <<[dumpId |-> 1, catalogOid |-> 2608, objectOid |-> 100],
      [dumpId |-> 2, catalogOid |-> 2608, objectOid |-> 101]>>
SourceTocs == {SubSeq(SourceSchema, 1, k) : k \in 0 .. Len(SourceSchema)}
SourceOids == {SourceSchema[i].objectOid : i \in 1 .. Len(SourceSchema)}

\* an object of the target database: its catalog and its oid in that catalog
Object(catalogOid, objectOid) == [catalogOid |-> catalogOid, objectOid |-> objectOid]
\* the index or constraint of the source schema with that oid
SourceObject(oid) ==
    LET i == CHOOSE i \in 1 .. Len(SourceSchema) : SourceSchema[i].objectOid = oid
    IN Object(SourceSchema[i].catalogOid, oid)

DumpInputs == [fault : 0 .. 4, how : Failures, toc : SourceTocs]

PrepareInputs == [fault : 0 .. 2, how : Failures]

FinalizeInputs ==
    [fault : 0 .. 4, how : Failures, read : ReadOutcomes,
     outOfRange : OutOfRangeOutcomes, oom : -1 .. MaxTocLen]

DumpSourceSchema(section) ==
    \E o \in DumpInputs :
        Leave(copydb_dump_source_schema(Enter, section, o), "dump", section)

TargetPrepareSchema ==
    \E o \in PrepareInputs :
        Leave(copydb_target_prepare_schema(Enter, o), "prepare", "pre-data")

TargetFinalizeSchema ==
    \E o \in FinalizeInputs :
        Leave(copydb_target_finalize_schema(Enter, o), "finalize", "post-data")

\* the concurrent index / constraint builder finishes an object and leaves
\* its done file in the index directory
IndexBuilt(oid) ==
    \E content \in {"empty", "text"} :
        /\ idxdir[oid] = "absent"
        /\ idxdir' = [idxdir EXCEPT ![oid] = content]
        /\ built' = built \cup {SourceObject(oid)}
        /\ op' = [name |-> "index", section |-> "-"]
        /\ ret' = "ok"
        /\ calls' = <<>>
        /\ entered' = <<>>
        /\ resumed' = {}
        /\ nomem' = "none"
        /\ redone' = {}
        /\ UNCHANGED <<dumpFile, done, listFile, restored, interrupted, unrecorded,
                       lost>>

\* ------------------------------------------------------------ Spec
\* pgcopydb run, and run again after every error or kill, on a working
\* directory that starts empty: dump the schema, restore pre-data, let the
\* indexes be built, restore post-data.
InitOn(w) ==
    /\ dumpFile = w.dump
    /\ done = w.done
    /\ idxdir = w.idx
    /\ listFile = w.list
    /\ restored = [s \in Sections |-> 0]
    /\ op = [name |-> "none", section |-> "-"]
    /\ ret = "ok"
    /\ calls = <<>>
    /\ entered = <<>>
    /\ interrupted = {}
    /\ resumed = {}
    /\ nomem = "none"
    /\ unrecorded = {}
    /\ redone = {}
    /\ lost = {}

EmptyWorkDir ==
    [dump |-> [s \in Sections |-> NoArchive],
     done |-> [d \in DoneFiles |-> FALSE],
     idx |-> [oid \in Oids |-> "absent"],
     list |-> NoFile]

Init == InitOn(EmptyWorkDir) /\ built = {}

\* the step of the pipeline that comes next
Stage ==
    CASE ret # "ok" -> "dump"
      [] op.name = "dump" -> "prepare"
      [] op.name \in {"prepare", "index"} -> "finalize"
      [] OTHER -> "dump"

RunDump == Stage = "dump" /\ DumpSourceSchema("SCHEMA")
RunPrepare == Stage = "prepare" /\ TargetPrepareSchema
RunIndexes == Stage = "finalize" /\ \E oid \in SourceOids : IndexBuilt(oid)
RunFinalize == Stage = "finalize" /\ TargetFinalizeSchema

Next == RunDump \/ RunPrepare \/ RunIndexes \/ RunFinalize

Spec == Init /\ [][Next]_vars

\* ------------------------------------------------------------ SpecLive
\* the pipeline, with a caller that keeps invoking it and external operations
\* that do not fail for ever: a stage that is invoked again and again is
\* invoked at some time with every pg_dump, pg_restore, write_file, read_file
\* and allocation of the invocation succeeding. What the out-of-range read of the
\* done file lookup does is no operation that can be waited for.
\* (o.how is not looked at when o.fault = 0; the run is bound once.)
Unfailing(o) == o.fault = 0 /\ o.how = "fail"

RunDumpUnfailing ==
    /\ Stage = "dump"
    /\ \E o \in DumpInputs :
          /\ Unfailing(o)
          /\ \E r \in {copydb_dump_source_schema(Enter, "SCHEMA", o)} :
                Leave(r, "dump", "SCHEMA")

RunPrepareUnfailing ==
    /\ Stage = "prepare"
    /\ \E o \in PrepareInputs :
          /\ Unfailing(o)
          /\ \E r \in {copydb_target_prepare_schema(Enter, o)} :
                Leave(r, "prepare", "pre-data")

RunFinalizeUnfailing ==
    /\ Stage = "finalize"
    /\ \E o \in FinalizeInputs :
          /\ Unfailing(o) /\ o.oom = -1 /\ o.read = "ok"
          /\ \E r \in {copydb_target_finalize_schema(Enter, o)} :
                Leave(r, "finalize", "post-data")

SpecLive ==
    /\ Init /\ [][Next]_vars
    /\ SF_vars(RunDumpUnfailing)
    /\ SF_vars(RunPrepareUnfailing)
    /\ SF_vars(RunFinalizeUnfailing)

\* ------------------------------------------------------------ SpecAnyDir
\* one invocation of any handler, with any argument, on any working directory
\* earlier runs may have left
WorkDirs(tocs) ==
    [dump : [Sections -> {NoArchive, PartialArchive} \cup {Archive(t) : t \in tocs}],
     done : [DoneFiles -> BOOLEAN],
     idx : [Oids -> DoneFileContents],
     list : {NoFile, File(<<>>)}]

\* the done files of an index directory
DoneOids(idx) == {oid \in Oids : idx[oid] # "absent"}

InitAnyDir ==
    \E w \in WorkDirs(SourceTocs) :
        /\ w.dump["pre-data"].toc = <<>>
        /\ InitOn(w)
        /\ built = {SourceObject(oid) : oid \in DoneOids(w.idx)}

First == op.name = "none"

AnyDump == First /\ \E section \in PG_DUMP_SECTION : DumpSourceSchema(section)
AnyPrepare == First /\ TargetPrepareSchema
AnyFinalize == First /\ TargetFinalizeSchema
AnyIndex == First /\ \E oid \in Oids : IndexBuilt(oid)

NextAnyDir == AnyDump \/ AnyPrepare \/ AnyFinalize \/ AnyIndex

SpecAnyDir == InitAnyDir /\ [][NextAnyDir]_vars

\* ------------------------------------------------------------ SpecDump
\* the dump invoked again and again, with any section argument, on a working
\* directory that starts empty
DumpAgain == \E section \in PG_DUMP_SECTION : DumpSourceSchema(section)

SpecDump == Init /\ [][DumpAgain]_vars

\* ------------------------------------------------------------ SpecManifest
\* the post-data stage on an archive with any table of contents and any set
\* of per-object done files
InitManifest ==
    \E toc \in ArchiveContentArray, idx \in [Oids -> DoneFileContents],
       catalog \in [Oids -> CatalogOids] :
        /\ InitOn([dump |-> [s \in Sections |->
                               IF s = "post-data" THEN Archive(toc) ELSE NoArchive],
                   done |-> [d \in DoneFiles |-> FALSE],
                   idx |-> idx,
                   list |-> NoFile])
        /\ built = {Object(catalog[oid], oid) : oid \in DoneOids(idx)}

NextManifest == AnyFinalize \/ AnyIndex

SpecManifest == InitManifest /\ [][NextManifest]_vars

\* ------------------------------------------------------------ claims
DumpDone(s) == DoneFileOf(s, "dump")
RestoreDone(s) == DoneFileOf(s, "restore")
StageOf(s) == IF s = "pre-data" THEN "prepare" ELSE "finalize"
OtherSection(s) == IF s = "pre-data" THEN "post-data" ELSE "pre-data"

\* the sections a PostgresDumpSection value asks for
Requested(section, s) ==
    \/ section \in {"SCHEMA", "ALL"}
    \/ section = "PRE_DATA" /\ s = "pre-data"
    \/ section = "POST_DATA" /\ s = "post-data"

\* no external operation about section s went wrong in the invocation
NothingWrongWith(cs, s) ==
    \A i \in 1 .. Len(cs) : cs[i][2] \in {s, DumpDone(s)} => cs[i][3] = "ok"
NoKill(cs) == \A i \in 1 .. Len(cs) : cs[i][3] \notin {"killed", "killedLate"}

\* C1: a dump invoked for a section whose tracking file already exists makes
\* no pg_dump invocation for that section, leaves its archive file as it is,
\* and returns success, unless the process is killed or an operation of the
\* other requested section goes wrong.
C1_SkippedDumpSucceeds ==
    [][\A s \in Sections :
          (op'.name = "dump" /\ Requested(op'.section, s) /\ done[DumpDone(s)])
          => /\ ~Invoked(calls', "pg_dump_db", s)
             /\ dumpFile'[s] = dumpFile[s]
             /\ (NoKill(calls') /\ NothingWrongWith(calls', OtherSection(s))
                   => ret' = "ok")]_vars

\* C2, as stated: a restore stage invoked when its tracking file exists makes
\* no external invocation and returns success, whatever the working directory.
C2_SkipOnAnyWorkDir ==
    [][\A s \in Sections :
          (op'.name = StageOf(s) /\ done[RestoreDone(s)])
          => calls' = <<>> /\ ret' = "ok"]_vars

\* C2, amended: a restore stage invoked when its tracking file exists makes no
\* external invocation and changes no file; it returns success when the
\* section's archive file is present and an error when it is absent.
C2_SkipWhenArchivePresent ==
    [][\A s \in Sections :
          (op'.name = StageOf(s) /\ done[RestoreDone(s)])
          => /\ calls' = <<>>
             /\ listFile' = listFile /\ done' = done /\ restored' = restored
             /\ (dumpFile[s].kind # "absent" => ret' = "ok")
             /\ (dumpFile[s].kind = "absent" => ret' = "error")]_vars

C2_Witness ==
    /\ op.name = "finalize" /\ ret = "ok" /\ calls = <<>>
    /\ done["postDataRestore"] /\ dumpFile["post-data"].kind = "archive"

\* C3: a restore stage invoked when its archive file is absent returns an
\* error, makes no external invocation (no restore, no table-of-contents
\* query, no list file write) and writes no tracking file.
C3_MissingArchiveIsAnError ==
    [][\A s \in Sections :
          (op'.name = StageOf(s) /\ dumpFile[s].kind = "absent")
          => /\ ret' = "error"
             /\ calls' = <<>>
             /\ done' = done /\ listFile' = listFile /\ restored' = restored]_vars

C3_Witness ==
    /\ op.name = "finalize" /\ ret = "error" /\ calls = <<>>
    /\ dumpFile["post-data"].kind = "absent" /\ ~done["postDataRestore"]

\* ---- reading a list file back, by the line format
\* "[;]<dumpId>; <catalogOid> <objectOid>\n"
IndexOf(text, c) ==
    IF \E i \in 1 .. Len(text) : text[i] = c
    THEN CHOOSE i \in 1 .. Len(text) : text[i] = c /\ \A j \in 1 .. (i - 1) : text[j] # c
    ELSE 0

Digits == {"0", "1", "2", "3", "4", "5", "6", "7", "8", "9"}
IsNumber(text) == text # <<>> /\ \A i \in 1 .. Len(text) : text[i] \in Digits
DigitValue(c) == CHOOSE d \in 0 .. 9 : Digit(d) = c

RECURSIVE ParseUnsigned(_)
ParseUnsigned(text) ==
    IF text = <<>> THEN 0
    ELSE ParseUnsigned(SubSeq(text, 1, Len(text) - 1)) * 10
         + DigitValue(text[Len(text)])

RECURSIVE SplitLines(_)
\* the lines of a text, each without its newline; text after the last newline
\* is no line
SplitLines(text) ==
    LET nl == IndexOf(text, "\n") IN
    IF nl = 0 THEN <<>>
    ELSE <<SubSeq(text, 1, nl - 1)>> \o SplitLines(SubSeq(text, nl + 1, Len(text)))

\* every line of the text ends with a newline
Terminated(text) == text = <<>> \/ text[Len(text)] = "\n"

BadLine == [ok |-> FALSE, inactive |-> FALSE, dumpId |-> 0, catalogOid |-> 0,
            objectOid |-> 0]

ParseListLine(line) ==
    LET inactive == line # <<>> /\ line[1] = ";"
        body == IF inactive THEN Tail(line) ELSE line
        semi == IndexOf(body, ";")
        first == SubSeq(body, 1, semi - 1)
        rest == SubSeq(body, semi + 2, Len(body))
        space == IndexOf(rest, " ")
        second == SubSeq(rest, 1, space - 1)
        third == SubSeq(rest, space + 1, Len(rest))
    IN IF /\ semi > 1 /\ Len(body) > semi /\ body[semi + 1] = " "
          /\ space > 1
          /\ IsNumber(first) /\ IsNumber(second) /\ IsNumber(third)
       THEN [ok |-> TRUE, inactive |-> inactive, dumpId |-> ParseUnsigned(first),
             catalogOid |-> ParseUnsigned(second),
             objectOid |-> ParseUnsigned(third)]
       ELSE BadLine

ParseList(text) ==
    LET lines == SplitLines(text)
    IN IF Terminated(text) THEN [i \in 1 .. Len(lines) |-> ParseListLine(lines[i])]
       ELSE <<BadLine>>

\* the last invocation is a post-data stage that wrote the list file
ListWritten ==
    op.name = "finalize" /\ InvokedWith(calls, "write_file", "listFilename", "ok")

PostToc == dumpFile["post-data"].toc

\* C4: in the list file the post-data stage writes, line i starts with ";"
\* exactly when a done file exists for the object of entry i of the archive's
\* table of contents; every other line starts with its dump identifier.
C4_CommentedIffDoneFile ==
    ListWritten =>
        LET lines == SplitLines(listFile.data) IN
        /\ Len(lines) = Len(PostToc)
        /\ \A i \in 1 .. Len(PostToc) :
              /\ lines[i] # <<>>
              /\ (lines[i][1] = ";") <=> (idxdir[PostToc[i].objectOid] # "absent")
              /\ (lines[i][1] \in Digits) <=> (idxdir[PostToc[i].objectOid] = "absent")

\* the scenario: entries (1,2608,100), (2,2608,101), a done file for 100 only
C4_Witness ==
    /\ ListWritten
    /\ PostToc = <<[dumpId |-> 1, catalogOid |-> 2608, objectOid |-> 100],
                   [dumpId |-> 2, catalogOid |-> 2608, objectOid |-> 101]>>
    /\ idxdir[100] # "absent" /\ idxdir[101] = "absent"
    /\ listFile.data =
         <<";", "1", ";", " ", "2", "6", "0", "8", " ", "1", "0", "0", "\n",
           "2", ";", " ", "2", "6", "0", "8", " ", "1", "0", "1", "\n">>

\* C5: the list file has one line per entry of the table of contents, and
\* line i carries the dump identifier, catalog and object identifier of entry i.
C5_OneLinePerEntryInOrder ==
    ListWritten =>
        LET parsed == ParseList(listFile.data) IN
        /\ Len(parsed) = Len(PostToc)
        /\ \A i \in 1 .. Len(PostToc) :
              /\ parsed[i].ok
              /\ parsed[i].dumpId = PostToc[i].dumpId
              /\ parsed[i].catalogOid = PostToc[i].catalogOid
              /\ parsed[i].objectOid = PostToc[i].objectOid

\* two different entries, the first one commented out, the second one not
C5_Witness ==
    /\ ListWritten
    /\ Len(PostToc) = 2 /\ PostToc[1].dumpId = 2 /\ PostToc[2].dumpId = 1
    /\ PostToc[1].objectOid # PostToc[2].objectOid
    /\ idxdir[PostToc[1].objectOid] # "absent"
    /\ idxdir[PostToc[2].objectOid] = "absent"
    /\ Len(SplitLines(listFile.data)) = 2

\* the manifest the post-data stage is to write: per entry, whether it is
\* commented out, and the entry
Manifest ==
    [i \in 1 .. Len(PostToc) |->
        [ok |-> TRUE,
         inactive |-> idxdir[PostToc[i].objectOid] # "absent",
         dumpId |-> PostToc[i].dumpId,
         catalogOid |-> PostToc[i].catalogOid,
         objectOid |-> PostToc[i].objectOid]]

\* C6: reading the written list file back by the line format gives the
\* manifest: as many lines, each with the flag and the three numbers of its
\* entry.
C6_RoundTrip == ListWritten => ParseList(listFile.data) = Manifest

C6_Witness ==
    /\ ListWritten
    /\ Len(PostToc) = MaxTocLen
    /\ \E i, j \in 1 .. Len(PostToc) :
          /\ PostToc[i].catalogOid # PostToc[j].catalogOid
          /\ Manifest[i].inactive /\ ~Manifest[j].inactive
    /\ ParseList(listFile.data) = Manifest

\* C7: no step removes a phase tracking file: one that exists before an
\* invocation, whether the invocation succeeds, fails or is killed, exists
\* after it.
C7_TrackingFilesStay == [][\A d \in DoneFiles : done[d] => done'[d]]_vars

\* tracking files that existed before a dump of post-data failed are there
C7_Witness ==
    /\ op.name = "dump" /\ op.section = "POST_DATA" /\ ret = "error"
    /\ InvokedWith(calls, "pg_dump_db", "post-data", "failed")
    /\ done["preDataDump"] /\ done["preDataRestore"] /\ done["postDataRestore"]

\* C8: when pg_dump fails for a section, the dump returns an error and the
\* section's tracking file, absent before the call, is absent after it.
C8_FailedDumpLeavesNoTrackingFile ==
    [][\A s \in Sections :
          (op'.name = "dump" /\ InvokedWith(calls', "pg_dump_db", s, "failed"))
          => /\ ret' = "error"
             /\ (~done[DumpDone(s)] => ~done'[DumpDone(s)])]_vars

C8_Witness ==
    /\ op.name = "dump" /\ op.section = "SCHEMA" /\ ret = "error"
    /\ InvokedWith(calls, "pg_dump_db", "pre-data", "ok")
    /\ InvokedWith(calls, "pg_dump_db", "post-data", "failed")
    /\ done["preDataDump"] /\ ~done["postDataDump"]

\* C9: on a working directory that starts without restore tracking files, a
\* restore stage's tracking file exists only if pg_restore of that section
\* succeeded before; it appears only in an invocation of that stage in which
\* pg_restore succeeded and no external operation failed.
C9_RestoreTracked ==
    \A s \in Sections : done[RestoreDone(s)] => restored[s] >= 1

C9_RestoreTrackedStep ==
    \A s \in Sections :
        (~done[RestoreDone(s)] /\ done'[RestoreDone(s)])
        => /\ op'.name = StageOf(s)
           /\ InvokedWith(calls', "pg_restore_db", s, "ok")
           /\ \A i \in 1 .. Len(calls') : calls'[i][3] # "failed"

C9_TrackedOnlyAfterRestore == [][C9_RestoreTrackedStep]_vars /\ []C9_RestoreTracked

C9_Witness ==
    /\ op.name = "finalize" /\ ret = "ok"
    /\ done["postDataRestore"] /\ restored["post-data"] >= 1
    /\ done["preDataRestore"] /\ restored["pre-data"] >= 1

\* C10: a phase that was not done and is cut short by a kill, before its
\* operation completed or before the write of its tracking file began, has no
\* tracking file for as long as it is not run again; the next invocation that
\* reaches the phase invokes its external operation again instead of skipping
\* it.
FirstOp(name) ==
    IF name = "postDataRestore" THEN <<"pg_restore_list", "post-data">>
    ELSE MainOp(name)

C10_NoTrackingFile == \A name \in interrupted : ~done[name]

C10_RunAgainStep ==
    \A name \in interrupted :
        InSeq(name, entered') => Invoked(calls', FirstOp(name)[1], FirstOp(name)[2])

C10_KilledPhaseStartsOver == []C10_NoTrackingFile /\ [][C10_RunAgainStep]_vars

\* a post-data restore killed in an earlier run is run again
C10_Witness ==
    /\ "postDataRestore" \in resumed
    /\ op.name = "finalize"
    /\ Invoked(calls, "pg_restore_list", "post-data")
    /\ Invoked(calls, "pg_restore_db", "post-data")

\* C11: when an allocation fails while the list text is accumulated (the
\* buffer cannot be created, or an append fails), the post-data stage returns
\* an error having written no list file, invoked no pg_restore and written no
\* tracking file; and whenever the stage does invoke pg_restore, the list file
\* it passes has been written whole: it reads back as the full manifest.
C11_NoMemoryStep ==
    op'.name = "finalize" =>
        /\ nomem' # "none" =>
              /\ ret' = "error"
              /\ ~Invoked(calls', "write_file", "listFilename")
              /\ ~Invoked(calls', "pg_restore_db", "post-data")
              /\ ~Invoked(calls', "write_file", "postDataRestore")
              /\ listFile' = listFile /\ done' = done /\ restored' = restored
        /\ Invoked(calls', "pg_restore_db", "post-data") =>
              /\ InvokedWith(calls', "write_file", "listFilename", "ok")
              /\ ParseList(listFile'.data) = Manifest'

C11_NoPartialManifest == [][C11_NoMemoryStep]_vars

\* the second append fails, after a first line was accumulated
C11_Witness ==
    /\ op.name = "finalize" /\ nomem = "append" /\ ret = "error"
    /\ Len(PostToc) = 2 /\ idxdir[PostToc[1].objectOid] = "absent"
    /\ calls = << <<"pg_restore_list", "post-data", "ok">> >>
    /\ listFile = NoFile /\ ~done["postDataRestore"]

\* C12: when pg_dump of a section succeeds and the write of the section's
\* tracking file fails, the dump returns an error and the tracking file does
\* not exist; it stays absent until the section is handled again, and the next
\* dump invocation asked for the section invokes pg_dump for it again, which
\* on success leaves a whole archive, unless it ends earlier on an operation
\* of the other section.
C12_UnrecordedStep ==
    \A s \in Sections :
        /\ (/\ op'.name = "dump"
            /\ InvokedWith(calls', "pg_dump_db", s, "ok")
            /\ InvokedWith(calls', "write_file", DumpDone(s), "failed"))
           => ret' = "error" /\ ~done'[DumpDone(s)] /\ DumpDone(s) \in unrecorded'
        /\ (/\ DumpDone(s) \in unrecorded
            /\ op'.name = "dump" /\ Requested(op'.section, s)
            /\ NothingWrongWith(calls', OtherSection(s)))
           => /\ Invoked(calls', "pg_dump_db", s)
              /\ InvokedWith(calls', "pg_dump_db", s, "ok")
                    => dumpFile'[s].kind = "archive"

C12_Unrecorded == \A name \in unrecorded : ~done[name]

C12_UnrecordedDumpIsRedone == [][C12_UnrecordedStep]_vars /\ []C12_Unrecorded

\* a post-data dump left unrecorded is dumped again, over the first archive
C12_Witness ==
    /\ op.name = "dump" /\ "postDataDump" \in redone
    /\ InvokedWith(calls, "pg_dump_db", "post-data", "ok")
    /\ done["postDataDump"] /\ ret = "ok"

\* C13: the done file lookup returns true exactly when the object's done file
\* exists, whatever the file holds and whether or not it can be read: it
\* always returns, and its result is decided by existence alone.
C13_ProcessedIffDoneFileExists ==
    \A oid \in Oids, read \in ReadOutcomes, outOfRange \in OutOfRangeOutcomes :
        copydb_objectid_has_been_processed_already(Enter, oid, read, outOfRange)
            = IF idxdir[oid] # "absent" THEN "true" ELSE "false"

\* C14: in the list file the post-data stage writes, the line of an entry is
\* commented out exactly when the builder created that entry's object, the
\* object being the one with the entry's catalog and oid; the line of every
\* other entry is active, also when a built object of another catalog has the
\* same oid.
C14_SkipsExactlyTheBuiltObjects ==
    ListWritten =>
        LET parsed == ParseList(listFile.data) IN
        /\ Len(parsed) = Len(PostToc)
        /\ \A i \in 1 .. Len(PostToc) :
              parsed[i].inactive
                  <=> Object(PostToc[i].catalogOid, PostToc[i].objectOid) \in built

\* the calls of an invocation that are about section s
About(cs, s) == \E i \in 1 .. Len(cs) : cs[i][2] \in {s, DumpDone(s)}

\* C15: a dump asked for SCHEMA or ALL handles pre-data, then post-data
\* unless it returned on pre-data; asked for PRE_DATA it handles pre-data only
\* and leaves the post-data archive and dump tracking file as they are; asked
\* for POST_DATA it handles post-data only and leaves the pre-data ones. No
\* dump changes a restore tracking file, the list file, the done files of the
\* index directory or the target database.
C15_DumpStep ==
    op'.name = "dump" =>
        /\ op'.section \in {"SCHEMA", "ALL"} =>
              /\ entered' \in {<<"preDataDump">>, <<"preDataDump", "postDataDump">>}
              /\ NothingWrongWith(calls', "pre-data")
                    => entered' = <<"preDataDump", "postDataDump">>
              /\ ret' = "ok" => done'["preDataDump"] /\ done'["postDataDump"]
        /\ op'.section = "PRE_DATA" => entered' = <<"preDataDump">>
        /\ op'.section = "POST_DATA" => entered' = <<"postDataDump">>
        /\ \A s \in Sections :
              ~Requested(op'.section, s) =>
                  /\ ~About(calls', s)
                  /\ dumpFile'[s] = dumpFile[s]
                  /\ done'[DumpDone(s)] = done[DumpDone(s)]
        /\ \A s \in Sections : done'[RestoreDone(s)] = done[RestoreDone(s)]
        /\ listFile' = listFile /\ idxdir' = idxdir /\ restored' = restored

C15_SectionsAndFrame == [][C15_DumpStep]_vars

\* a dump of PRE_DATA on a directory with a half-written post-data archive
C15_Witness ==
    /\ op.name = "dump" /\ op.section = "PRE_DATA" /\ ret = "ok"
    /\ InvokedWith(calls, "pg_dump_db", "pre-data", "ok")
    /\ dumpFile["post-data"].kind = "partial" /\ ~done["postDataDump"]
    /\ done["preDataDump"] /\ done["postDataRestore"] /\ listFile.exists

\* C16: in a dump asked for SCHEMA or ALL, every operation on pre-data (its
\* pg_dump when it is not skipped, then the write of its tracking file) comes
\* before any operation on post-data, and pg_dump of post-data is invoked only
\* after the pre-data tracking file was written; when pg_dump of pre-data or
\* the write of its tracking file fails, the dump returns an error with no
\* pg_dump of post-data invoked and no post-data tracking file written.
C16_DumpStep ==
    (op'.name = "dump" /\ op'.section \in {"SCHEMA", "ALL"}) =>
        /\ \A i, j \in 1 .. Len(calls') :
              (calls'[i][2] \in {"pre-data", "preDataDump"}
                 /\ calls'[j][2] \in {"post-data", "postDataDump"}) => i < j
        /\ Invoked(calls', "pg_dump_db", "post-data")
              => /\ InvokedWith(calls', "write_file", "preDataDump", "ok")
                 /\ done'["preDataDump"]
                 /\ Invoked(calls', "pg_dump_db", "pre-data")
                       => InvokedWith(calls', "pg_dump_db", "pre-data", "ok")
        /\ (\/ InvokedWith(calls', "pg_dump_db", "pre-data", "failed")
            \/ InvokedWith(calls', "write_file", "preDataDump", "failed"))
              => /\ ret' = "error"
                 /\ ~About(calls', "post-data")
                 /\ dumpFile'["post-data"] = dumpFile["post-data"]
                 /\ done'["postDataDump"] = done["postDataDump"]

C16_PreDataBeforePostData == [][C16_DumpStep]_vars

\* both sections dumped, in order
C16_Witness ==
    /\ op.name = "dump" /\ op.section = "ALL" /\ ret = "ok"
    /\ calls = << <<"pg_dump_db", "pre-data", "ok">>,
                  <<"write_file", "preDataDump", "ok">>,
                  <<"pg_dump_db", "post-data", "ok">>,
                  <<"write_file", "postDataDump", "ok">> >>

\* C17: a dump that finds the tracking file of a section writes no file for
\* that section: it invokes neither pg_dump nor write_file on the section's
\* archive and tracking file, so nothing of its outcome is the result of a
\* write.
C17_SkipStep ==
    \A s \in Sections :
        (/\ op'.name = "dump" /\ InSeq(DumpDone(s), entered')
         /\ done[DumpDone(s)])
        => /\ ~About(calls', s)
           /\ dumpFile'[s] = dumpFile[s]
           /\ done'[DumpDone(s)]

C17_SkippedDumpWritesNothing == [][C17_SkipStep]_vars

\* C18: a section's dump tracking file exists only along with the whole
\* archive a successful pg_dump left. The empty working directory has no
\* tracking file, and no invocation of any handler, whether it succeeds, fails
\* or is killed, breaks this; so a restore stage invoked when the section's
\* dump tracking file exists gets past the test of its archive file.
C18_ArchiveOfTrackedDump ==
    \A s \in Sections : done[DumpDone(s)] => dumpFile[s].kind = "archive"

C18_Step ==
    C18_ArchiveOfTrackedDump =>
        /\ C18_ArchiveOfTrackedDump'
        /\ \A s \in Sections :
              (op'.name = StageOf(s) /\ done[DumpDone(s)])
              => /\ entered' = <<RestoreDone(s)>>
                 /\ ~(ret' = "error" /\ calls' = <<>>)

C18_TrackedDumpHasArchive ==
    /\ (\A d \in DoneFiles : ~done[d]) => C18_ArchiveOfTrackedDump
    /\ [][C18_Step]_vars

\* killed while the tracking file was written, after pg_dump succeeded
C18_Witness ==
    /\ op.name = "dump" /\ ret = "crash"
    /\ InvokedWith(calls, "pg_dump_db", "post-data", "ok")
    /\ InvokedWith(calls, "write_file", "postDataDump", "killedLate")
    /\ done["postDataDump"] /\ dumpFile["post-data"] = Archive(SourceSchema)
    /\ done["preDataDump"] /\ dumpFile["pre-data"].kind = "archive"

\* C19: as long as no invocation of a restore stage has been killed or has
\* failed to write the tracking file, pg_restore of the stage's section has
\* succeeded at most once; a stage invoked when its tracking file exists
\* invokes no pg_restore, and a stage whose pg_restore succeeds leaves the
\* tracking file unless it is killed or the write fails.
C19_RestoredOnce == \A s \in Sections : s \notin lost => restored[s] <= 1

C19_RestoreStep ==
    \A s \in Sections :
        op'.name = StageOf(s) =>
            /\ done[RestoreDone(s)] =>
                  ~Invoked(calls', "pg_restore_db", s) /\ restored'[s] = restored[s]
            /\ (InvokedWith(calls', "pg_restore_db", s, "ok") /\ s \notin lost')
                  => done'[RestoreDone(s)]

C19_AtMostOnceRestore == []C19_RestoredOnce /\ [][C19_RestoreStep]_vars

\* the post-data stage run again after it succeeded, and skipped
C19_Witness ==
    /\ op.name = "finalize" /\ ret = "ok" /\ calls = <<>>
    /\ done["postDataRestore"] /\ restored["post-data"] = 1
    /\ "post-data" \notin lost

\* C20: with the pipeline invoked again after every error or kill and
\* external operations and file writes that succeed in the end, the four
\* tracking files exist from some time on, and every invocation made when
\* they exist returns success without invoking pg_dump or pg_restore.
AllTracked == \A d \in DoneFiles : done[d]

ToolInvoked(cs) ==
    \E i \in 1 .. Len(cs) : cs[i][1] \in {"pg_dump_db", "pg_restore_list", "pg_restore_db"}

C20_ReachesAllTracked == <>[]AllTracked

C20_AllTrackedStep ==
    (AllTracked /\ op'.name \in {"dump", "prepare", "finalize"} /\ NoKill(calls'))
    => ret' = "ok" /\ ~ToolInvoked(calls')

C20_ResumptionCompletes == C20_ReachesAllTracked /\ [][C20_AllTrackedStep]_vars

====
